---- MODULE Spec2Model ----
(***************************************************************************)
(* A model of the product detector: the content script (src/content.js),   *)
(* which holds two detection functions that both run on every injection    *)
(* (lines 8-235 and 245-510; the value handed back to the popup is the     *)
(* second function's), and the popup's click handler (src/unnamed/part_000).*)
(*                                                                         *)
(* Text is a sequence of one-character strings; a character outside ASCII  *)
(* is written as a named token ("EURO", "NBSP", ...).  The page is a tree  *)
(* of elements numbered in document (pre-)order.  Geometry is what layout  *)
(* reports and is taken to be the same for both detection functions.       *)
(***************************************************************************)
EXTENDS Integers, Sequences, FiniteSets, TLC

(***************************************************************************)
(* Characters and the regular-expression classes \d, \s, \w, \b.           *)
(***************************************************************************)
LowerLetters == <<"a","b","c","d","e","f","g","h","i","j","k","l","m",
                  "n","o","p","q","r","s","t","u","v","w","x","y","z">>

UpperLetters == <<"A","B","C","D","E","F","G","H","I","J","K","L","M",
                  "N","O","P","Q","R","S","T","U","V","W","X","Y","Z">>

LowerSet == {LowerLetters[i] : i \in 1..26}

UpperSet == {UpperLetters[i] : i \in 1..26}

DigitSet == {"0","1","2","3","4","5","6","7","8","9"}

SpaceSet == {" ", "\t", "\n", "NBSP"}

UpMap == [c \in LowerSet |-> UpperLetters[CHOOSE i \in 1..26 : LowerLetters[i] = c]]

\* the /i flag: both the pattern and the text are compared in upper case
Canon(s) == [i \in 1..Len(s) |-> IF s[i] \in LowerSet THEN UpMap[s[i]] ELSE s[i]]

IsDigit(c) == c \in DigitSet

IsSpace(c) == c \in SpaceSet

IsWordChar(c) == c \in DigitSet \/ c \in UpperSet \/ c \in LowerSet \/ c = "_"

At(s, p) == IF p >= 1 /\ p <= Len(s) THEN s[p] ELSE ""

\* \b at position p (between s[p-1] and s[p])
WordBoundary(s, p) == IsWordChar(At(s, p - 1)) # IsWordChar(At(s, p))

\* the literal lit occurs in s at position p
LitAt(s, p, lit) ==
    /\ p >= 1
    /\ p + Len(lit) - 1 <= Len(s)
    /\ \A i \in 1..Len(lit) : s[p + i - 1] = lit[i]

StartsWith(s, lit) == LitAt(s, 1, lit)

Includes(s, lit) == \E p \in 1..(Len(s) + 1) : LitAt(s, p, lit)

\* \d{k} at position p
DigitsAt(s, p, k) == p + k - 1 <= Len(s) /\ \A i \in 0..(k - 1) : IsDigit(s[p + i])

\* the positions after \d+ matched from p
DigitsPlus(s, p) == {q \in (p + 1)..(Len(s) + 1) : \A i \in p..(q - 1) : IsDigit(s[i])}

RECURSIVE SkipSpaces(_, _)
\* the positions after \s* matched from p
SkipSpaces(s, p) ==
    IF p <= Len(s) /\ IsSpace(s[p]) THEN {p} \cup SkipSpaces(s, p + 1) ELSE {p}

RECURSIVE TrimLeft(_)
TrimLeft(s) == IF s # <<>> /\ IsSpace(Head(s)) THEN TrimLeft(Tail(s)) ELSE s

RECURSIVE TrimRight(_)
TrimRight(s) ==
    IF s # <<>> /\ IsSpace(s[Len(s)]) THEN TrimRight(SubSeq(s, 1, Len(s) - 1)) ELSE s

\* String.prototype.trim
Trim(s) == TrimRight(TrimLeft(s))

(***************************************************************************)
(* priceRegex.  The first detection function (V1) and the second (V2)      *)
(* differ in the currency tables only.                                     *)
(***************************************************************************)
V1 == "v1"

V2 == "v2"

CurrencyCodesV1 == {
    <<"U", "S", "D">>, <<"E", "U", "R">>, <<"G", "B", "P">>, <<"J", "P", "Y">>,
    <<"A", "U", "D">>, <<"C", "A", "D">>, <<"C", "H", "F">>, <<"C", "N", "Y">>,
    <<"S", "E", "K">>, <<"N", "Z", "D">>, <<"K", "R", "W">>, <<"I", "N", "R">>,
    <<"R", "U", "B">>, <<"Z", "A", "R">>, <<"S", "G", "D">>, <<"T", "R", "Y">>,
    <<"B", "R", "L">>, <<"M", "X", "N">>, <<"I", "D", "R">>, <<"D", "K", "K">>,
    <<"P", "L", "N">>, <<"T", "H", "B">>, <<"H", "U", "F">>, <<"C", "Z", "K">>,
    <<"I", "L", "S">>, <<"M", "Y", "R">>, <<"P", "H", "P">>, <<"R", "O", "N">>,
    <<"A", "R", "S">>, <<"C", "L", "P">>, <<"C", "O", "P">>, <<"E", "G", "P">>,
    <<"H", "K", "D">>, <<"I", "Q", "D">>, <<"J", "O", "D">>, <<"K", "W", "D">>,
    <<"L", "B", "P">>, <<"M", "A", "D">>, <<"M", "U", "R">>, <<"N", "G", "N">>,
    <<"N", "O", "K">>, <<"O", "M", "R">>, <<"Q", "A", "R">>, <<"S", "A", "R">>,
    <<"V", "N", "D">>
    }

CurrencyCodesV2 == CurrencyCodesV1 \cup {<<"T", "L">>}

\* the alternation of codes, indexed by the first letter of each code
CodesByInitialV1 == [c \in UpperSet |-> {d \in CurrencyCodesV1 : d[1] = c}]

CodesByInitialV2 == [c \in UpperSet |-> {d \in CurrencyCodesV2 : d[1] = c}]

CurrencyCodesAt(ver, c) ==
    IF c \notin UpperSet THEN {}
    ELSE IF ver = V1 THEN CodesByInitialV1[c] ELSE CodesByInitialV2[c]

CurrencySymbols(ver) ==
    {"$", "EURO", "POUND", "YEN", "RUPEE", "RUBLE", "WON"} \cup (IF ver = V1 THEN {} ELSE {"LIRA"})

\* the positions after [symbol] | (?:code) matched from p
Currency(ver, s, p) ==
    (IF At(s, p) \in CurrencySymbols(ver) THEN {p + 1} ELSE {})
        \cup {p + Len(c) : c \in {d \in CurrencyCodesAt(ver, At(s, p)) : LitAt(s, p, d)}}

\* \d{1,3}
Digits13(s, p) == {p + k : k \in {j \in 1..3 : DigitsAt(s, p, j)}}

RECURSIVE Thousands(_, _)
\* (?:[.,\s]\d{3})*
Thousands(s, p) ==
    {p} \cup (IF /\ p <= Len(s)
                 /\ (s[p] \in {".", ","} \/ IsSpace(s[p]))
                 /\ DigitsAt(s, p + 1, 3)
              THEN Thousands(s, p + 4)
              ELSE {})

\* (?:[.,]\d{1,2})?
Decimals(s, p) ==
    {p} \cup {p + 1 + k : k \in {j \in 1..2 : At(s, p) \in {".", ","} /\ DigitsAt(s, p + 1, j)}}

\* \d{1,3}(?:[.,\s]\d{3})*(?:[.,]\d{1,2})?
Magnitude(s, p) ==
    UNION {UNION {Decimals(s, r) : r \in Thousands(s, q)} : q \in Digits13(s, p)}

\* currency first, anywhere in the text, closed by \b
PricePrefixForm(ver, s) ==
    \E p \in 1..Len(s) : \E c \in Currency(ver, s, p) : \E q \in SkipSpaces(s, c) :
        \E e \in Magnitude(s, q) : WordBoundary(s, e)

\* ^magnitude \s* currency$
PriceSuffixForm(ver, s) ==
    \E e \in Magnitude(s, 1) : \E q \in SkipSpaces(s, e) : (Len(s) + 1) \in Currency(ver, s, q)

\* priceRegex.test(text)
PriceRegexTest(ver, text) ==
    LET s == Canon(text) IN PricePrefixForm(ver, s) \/ PriceSuffixForm(ver, s)

(***************************************************************************)
(* reviewPattern (the same in both functions).                             *)
(***************************************************************************)
ReviewWords == {
    <<"S", "T", "A", "R">>,
    <<"S", "T", "A", "R", "S">>,
    <<"R", "A", "T", "I", "N", "G">>,
    <<"R", "E", "V", "I", "E", "W">>,
    <<"R", "E", "V", "I", "E", "W", "S">>,
    <<"C", "U", "S", "T", "O", "M", "E", "R", " ", "R", "E", "V", "I", "E", "W", "S">>,
    <<"O", "V", "E", "R", "A", "L", "L", " ", "S", "C", "O", "R", "E">>,
    <<"A", "V", "E", "R", "A", "G", "E", " ", "R", "A", "T", "I", "N", "G">>,
    <<"W", "E", "R", "T", "U", "N", "G">>,
    <<"B", "E", "O", "O", "R", "D", "E", "L", "I", "N", "G">>
    }

ReviewCounted == {<<"O", "U", "T", " ", "O", "F", " ">>, <<"S", "U", "R", " ">>}

\* the positions after one alternative of the keyword group matched from p
ReviewAltEnds(s, p) ==
    {p + Len(w) : w \in {v \in ReviewWords : LitAt(s, p, v)}}
        \cup UNION {DigitsPlus(s, p + Len(w)) : w \in {v \in ReviewCounted : LitAt(s, p, v)}}
        \cup (IF LitAt(s, p, <<"F", "R", "O", "M", " ">>)
              THEN UNION {{q} \cup (IF At(s, q) = "." THEN DigitsPlus(s, q + 1) ELSE {})
                          : q \in DigitsPlus(s, p + 5)}
              ELSE {})

\* \b(?:...)\b
ReviewKeywordForm(s) ==
    \E p \in 1..Len(s) : WordBoundary(s, p) /\ \E e \in ReviewAltEnds(s, p) : WordBoundary(s, e)

\* the pattern without its ratio alternative
ReviewRatioFormMissing(s) == FALSE

\* ^\d(?:\.\d+)?\/\d$
ReviewRatioForm(s) ==
    /\ IsDigit(At(s, 1))
    /\ \E q \in {2} \cup (IF At(s, 2) = "." THEN DigitsPlus(s, 3) ELSE {}) :
          At(s, q) = "/" /\ IsDigit(At(s, q + 1)) /\ q + 1 = Len(s)

\* reviewPattern.test(text)
ReviewPatternTest(text) == LET s == Canon(text) IN ReviewKeywordForm(s) \/ ReviewRatioForm(s)

\* /^\d+$/.test(text)
NumericOnly(text) == text # <<>> /\ \A i \in 1..Len(text) : IsDigit(text[i])

(***************************************************************************)
(* The page.  A page is [parent, el]: parent[n] is the parent of element n *)
(* (0 for the root, whose parentElement is null) and el[n] its attributes. *)
(* Elements are numbered in document order, so parent[n] < n and           *)
(* querySelectorAll's order is the numeric order.                          *)
(***************************************************************************)
Nodes(d) == 1..Len(d.parent)

RECURSIVE Contains(_, _, _)
\* a.contains(n): a is n or an ancestor of n
Contains(d, a, n) == n # 0 /\ (n = a \/ Contains(d, a, d.parent[n]))

\* the elements a.querySelectorAll can return: the proper descendants of a
Descendants(d, a) == {n \in Nodes(d) : n # a /\ Contains(d, a, n)}

RECURSIVE Rendered(_, _)
\* el.offsetParent !== null: no element from n up to the root is display:none
Rendered(d, n) == n = 0 \/ (~d.el[n].displayNone /\ Rendered(d, d.parent[n]))

OffsetWidth(d, n) == IF Rendered(d, n) THEN d.el[n].w ELSE 0

OffsetHeight(d, n) == IF Rendered(d, n) THEN d.el[n].h ELSE 0

RECURSIVE InnerText(_, _)
RECURSIVE ChildrenText(_, _, _)
\* el.innerText of a rendered element: its own text, then that of its rendered
\* children in order (children are laid out inline; an img contributes nothing)
InnerText(d, n) ==
    IF d.el[n].tag = "img" THEN <<>> ELSE d.el[n].text \o ChildrenText(d, n, n + 1)

ChildrenText(d, n, c) ==
    IF c > Len(d.parent) THEN <<>>
    ELSE (IF d.parent[c] = n /\ ~d.el[c].displayNone THEN InnerText(d, c) ELSE <<>>)
             \o ChildrenText(d, n, c + 1)

\* el.innerText.trim()
TrimmedText(d, n) == Trim(InnerText(d, n))

(***************************************************************************)
(* Selectors.                                                              *)
(***************************************************************************)
ItemPrice == <<"p", "r", "i", "c", "e">>

ItemName == <<"n", "a", "m", "e">>

ItemReview == <<"r", "e", "v", "i", "e", "w">>

\* 'span, div, p, strong, b, ins, a, [itemprop="price"], [data-price], [data-saleprice]'
InPriceUniverse(e) ==
    \/ e.tag \in {"span", "div", "p", "strong", "b", "ins", "a"}
    \/ e.itemprop = ItemPrice
    \/ "data-price" \in e.attrs
    \/ "data-saleprice" \in e.attrs

\* 'h1, ..., h6, a[href], [role="heading"], [itemprop="name"], .product-title, .item-name'
MatchesTitleSelectors(e) ==
    \/ e.tag \in {"h1", "h2", "h3", "h4", "h5", "h6"}
    \/ (e.tag = "a" /\ e.href)
    \/ e.itemprop = ItemName
    \/ e.cls \in {"product-title", "item-name"}

\* reviewContainerSelectors, on the class and itemprop attributes
MatchesReviewContainer(e) ==
    \/ e.itemprop = ItemReview
    \/ e.cls \in {"reviews", "product-reviews", "rating-stars", "star-rating", "score",
                  "review-section", "rating-summary", "customer-reviews"}

\* hasSemanticPriceAttr
HasSemanticPriceAttr(e) ==
    \/ "data-price" \in e.attrs
    \/ "data-saleprice" \in e.attrs
    \/ (e.itemprop # <<>> /\ Includes(Canon(e.itemprop), Canon(ItemPrice)))

\* isReviewElement
IsReviewElement(e) ==
    \/ /\ e.itemprop # <<>>
       /\ \/ Includes(Canon(e.itemprop), <<"R","E","V","I","E","W","R","A","T","I","N","G">>)
          \/ Includes(Canon(e.itemprop), <<"R","A","T","I","N","G","V","A","L","U","E">>)
    \/ "data-rating" \in e.attrs

(***************************************************************************)
(* 1. The price candidate scan.                                            *)
(***************************************************************************)
MIN_CONTAINER_WIDTH == 100

MAX_CONTAINER_WIDTH == 1000

MIN_CONTAINER_HEIGHT == 100

MAX_CONTAINER_HEIGHT == 1500

MIN_IMAGE_SIZE_PX == 60

MIN_NATURAL_IMAGE_SIZE_PX == 50

MAX_TITLE_LENGTH == 200

MIN_TITLE_LENGTH == 5

MAX_TEXT_ELEMENT_LENGTH == 50

ReviewClimbDepth == 6

ClimbDepth == 10

RECURSIVE ReviewClimb(_, _, _)
\* first function: the element and its nearest ancestors, ReviewClimbDepth steps
ReviewClimb(d, current, i) ==
    /\ i < ReviewClimbDepth
    /\ current # 0
    /\ (MatchesReviewContainer(d.el[current]) \/ ReviewClimb(d, d.parent[current], i + 1))

RECURSIVE ClosestReview(_, _)
\* second function: el.closest(reviewContainerSelectors)
ClosestReview(d, n) ==
    n # 0 /\ (MatchesReviewContainer(d.el[n]) \/ ClosestReview(d, d.parent[n]))

InReviewContainer(ver, d, n) == IF ver = V1 THEN ReviewClimb(d, n, 0) ELSE ClosestReview(d, n)

\* the filter with the price attribute accepted before the review rules
PriceVerdictAttributeFirst(ver, d, n) ==
    IF ~Rendered(d, n) \/ OffsetWidth(d, n) = 0 \/ OffsetHeight(d, n) = 0 THEN "hidden"
    ELSE LET text == TrimmedText(d, n) IN
         IF Len(text) = 0 \/ Len(text) > MAX_TEXT_ELEMENT_LENGTH THEN "length"
         ELSE IF InReviewContainer(ver, d, n) THEN "reviewContainer"
         ELSE IF HasSemanticPriceAttr(d.el[n]) THEN "priceAttr"
         ELSE IF IsReviewElement(d.el[n]) THEN "reviewAttr"
         ELSE IF ReviewPatternTest(text) THEN "reviewText"
         ELSE IF PriceRegexTest(ver, text) THEN "priceRegex"
         ELSE "none"

\* The filter callback, returning the rule that decided.  The element is kept
\* when the rule is "priceRegex" or "priceAttr".
PriceVerdict(ver, d, n) ==
    IF ~Rendered(d, n) \/ OffsetWidth(d, n) = 0 \/ OffsetHeight(d, n) = 0 THEN "hidden"
    ELSE LET text == TrimmedText(d, n) IN
         IF Len(text) = 0 \/ Len(text) > MAX_TEXT_ELEMENT_LENGTH THEN "length"
         ELSE IF InReviewContainer(ver, d, n) THEN "reviewContainer"
         ELSE IF IsReviewElement(d.el[n]) THEN "reviewAttr"
         ELSE IF ReviewPatternTest(text) THEN "reviewText"
         ELSE IF PriceRegexTest(ver, text) THEN "priceRegex"
         ELSE IF HasSemanticPriceAttr(d.el[n]) THEN "priceAttr"
         ELSE "none"

IsPriceCandidate(ver, d, n) ==
    InPriceUniverse(d.el[n]) /\ PriceVerdict(ver, d, n) \in {"priceRegex", "priceAttr"}

\* potentialPriceElements
PotentialPriceElements(ver, d) ==
    SelectSeq([n \in Nodes(d) |-> n], LAMBDA n : IsPriceCandidate(ver, d, n))

(***************************************************************************)
(* 4. The product image of a container.                                    *)
(***************************************************************************)
GifPlaceholder == <<"d","a","t","a",":","i","m","a","g","e","/","g","i","f",";","b","a","s","e","6","4">>

GifPrefix == <<"d","a","t","a",":","i","m","a","g","e","/","g","i","f">>

DataPrefix == <<"d","a","t","a",":">>

BlankGif == <<"b","l","a","n","k",".","g","i","f">>

NotAvailable == <<"N", "/", "A">>

\* a || b || c on strings: the first that is not empty
FirstTruthy(a, b, c) == IF a # <<>> THEN a ELSE IF b # <<>> THEN b ELSE c

\* img.dataset.src || img.dataset.lazyload || img.getAttribute('data-src')
LazySource(e) == FirstTruthy(e.dataSrc, e.dataLazyload, e.dataSrc)

\* the test of the find callback on one img
ImageQualifies(ver, d, n) ==
    LET e == d.el[n] IN
    /\ Rendered(d, n)
    /\ OffsetWidth(d, n) > MIN_IMAGE_SIZE_PX
    /\ OffsetHeight(d, n) > MIN_IMAGE_SIZE_PX
    /\ IF ver = V1
       THEN \/ (e.naturalWidth > 50 /\ e.naturalHeight > 50)
            \/ e.loading = "lazy"
            \/ e.dataSrc # <<>>
            \/ e.srcset # <<>>
       ELSE \/ (e.src # <<>> /\ ~StartsWith(e.src, GifPlaceholder) /\ ~Includes(e.src, BlankGif))
            \/ LazySource(e) # <<>>
            \/ e.srcset # <<>>
            \/ /\ e.naturalWidth > MIN_NATURAL_IMAGE_SIZE_PX
               /\ e.naturalHeight > MIN_NATURAL_IMAGE_SIZE_PX
               /\ e.loading = ""

Min(S) == CHOOSE x \in S : \A y \in S : x <= y

Max(S) == CHOOSE x \in S : \A y \in S : x >= y

\* the last qualifying image in place of the first
FindLastImage(ver, d, c) ==
    LET ok == {n \in Descendants(d, c) : d.el[n].tag = "img" /\ ImageQualifies(ver, d, n)}
    IN IF ok = {} THEN 0 ELSE Max(ok)

\* Array.from(currentElement.querySelectorAll('img')).find(...); 0 when none
FindImage(ver, d, c) ==
    LET ok == {n \in Descendants(d, c) : d.el[n].tag = "img" /\ ImageQualifies(ver, d, n)}
    IN IF ok = {} THEN 0 ELSE Min(ok)

(***************************************************************************)
(* 5. The title of a container.                                            *)
(***************************************************************************)
\* the title length with both bounds exclusive
TitleLengthExclusive(ver, len) == len > MIN_TITLE_LENGTH /\ len < MAX_TITLE_LENGTH

TitleLengthOk(ver, len) ==
    IF ver = V1 THEN len > 5 /\ len < 200
    ELSE len >= MIN_TITLE_LENGTH /\ len <= MAX_TITLE_LENGTH

\* the title loop without the anti-self-reference test
TitleNeverHoldsPrice(d, el, priceElement) == FALSE

\* el.contains(priceElement), the anti-self-reference test of the title loop
TitleHoldsPrice(d, el, priceElement) == Contains(d, el, priceElement)

\* the condition of the title loop on one element
TitleQualifies(ver, d, el, priceElement) ==
    LET titleText == TrimmedText(d, el) IN
    /\ TitleLengthOk(ver, Len(titleText))
    /\ ~TitleHoldsPrice(d, el, priceElement)
    /\ ~PriceRegexTest(ver, titleText)
    /\ ~NumericOnly(titleText)
    /\ ~ReviewPatternTest(titleText)
    /\ Rendered(d, el)
    /\ OffsetWidth(d, el) > 0
    /\ OffsetHeight(d, el) > 0

\* the elements the title loop visits, in order
PotentialTitles(d, c) == {n \in Descendants(d, c) : MatchesTitleSelectors(d.el[n])}

\* the title loop: the first element that qualifies; 0 when none
FindTitle(ver, d, c, priceElement) ==
    LET ok == {n \in PotentialTitles(d, c) : TitleQualifies(ver, d, n, priceElement)}
    IN IF ok = {} THEN 0 ELSE Min(ok)

(***************************************************************************)
(* 3. The climb from a price element to its product container.             *)
(***************************************************************************)
\* the test left out: nothing counts as processed
IsProcessedNever(processed, c) == FALSE

\* processedContainers.has(currentElement)
IsProcessed(processed, c) == c \in processed

\* the size test without its last comparison
OutOfBoundsNoMaxHeight(offsetWidth, offsetHeight) ==
    \/ offsetWidth < MIN_CONTAINER_WIDTH
    \/ offsetHeight < MIN_CONTAINER_HEIGHT
    \/ offsetWidth > MAX_CONTAINER_WIDTH

\* the size test that makes the climb skip an ancestor
OutOfBounds(offsetWidth, offsetHeight) ==
    \/ offsetWidth < MIN_CONTAINER_WIDTH
    \/ offsetHeight < MIN_CONTAINER_HEIGHT
    \/ offsetWidth > MAX_CONTAINER_WIDTH
    \/ offsetHeight > MAX_CONTAINER_HEIGHT

RECURSIVE ClimbOneMore(_, _, _, _, _, _, _)
\* the loop with one step more than ClimbDepth
ClimbOneMore(ver, d, priceElement, processed, currentElement, i, image) ==
    IF ~(i < ClimbDepth + 1 /\ currentElement # 0 /\ d.parent[currentElement] # 0)
    THEN [productContainer |-> 0, image |-> image, title |-> 0, step |-> i]
    ELSE LET c == d.parent[currentElement] IN
         IF IsProcessed(processed, c)
         THEN ClimbOneMore(ver, d, priceElement, processed, c, i + 1, image)
         ELSE IF OutOfBounds(OffsetWidth(d, c), OffsetHeight(d, c))
         THEN ClimbOneMore(ver, d, priceElement, processed, c, i + 1, image)
         ELSE LET img == FindImage(ver, d, c)
                  ttl == IF img # 0 THEN FindTitle(ver, d, c, priceElement) ELSE 0
              IN IF img # 0 /\ ttl # 0
                 THEN [productContainer |-> c, image |-> img, title |-> ttl, step |-> i + 1]
                 ELSE ClimbOneMore(ver, d, priceElement, processed, c, i + 1, img)

RECURSIVE Climb(_, _, _, _, _, _, _)
\* The for loop, entered with loop counter i at currentElement; image is the
\* loop's image variable, which an iteration that is skipped leaves as it was.
\* The result is [productContainer, image, title, step], 0 standing for null.
Climb(ver, d, priceElement, processed, currentElement, i, image) ==
    IF ~(i < ClimbDepth /\ currentElement # 0 /\ d.parent[currentElement] # 0)
    THEN [productContainer |-> 0, image |-> image, title |-> 0, step |-> i]
    ELSE LET c == d.parent[currentElement] IN
         IF IsProcessed(processed, c)
         THEN Climb(ver, d, priceElement, processed, c, i + 1, image)
         ELSE IF OutOfBounds(OffsetWidth(d, c), OffsetHeight(d, c))
         THEN Climb(ver, d, priceElement, processed, c, i + 1, image)
         ELSE LET img == FindImage(ver, d, c)
                  ttl == IF img # 0 THEN FindTitle(ver, d, c, priceElement) ELSE 0
              IN IF img # 0 /\ ttl # 0
                 THEN [productContainer |-> c, image |-> img, title |-> ttl, step |-> i + 1]
                 ELSE Climb(ver, d, priceElement, processed, c, i + 1, img)

(***************************************************************************)
(* 7. The record of a product.                                             *)
(***************************************************************************)
\* the text of s after its last comma (the last element of s.split(','))
AfterLastComma(s) ==
    LET at == {i \in 1..Len(s) : s[i] = ","}
    IN IF at = {} THEN s ELSE SubSeq(s, Max(at) + 1, Len(s))

\* s.split(' ')[0]
FirstField(s) ==
    LET at == {i \in 1..Len(s) : s[i] = " "}
    IN IF at = {} THEN s ELSE SubSeq(s, 1, Min(at) - 1)

\* srcsetParts[srcsetParts.length - 1][0]
LastSrcsetUrl(srcset) == FirstField(Trim(AfterLastComma(srcset)))

\* actualImageUrl
ResolveImageUrl(ver, e) ==
    LET placeholder(u) ==
            \/ u = <<>>
            \/ (IF ver = V1 THEN Includes(u, GifPlaceholder) ELSE StartsWith(u, GifPlaceholder))
            \/ Includes(u, BlankGif)
        gif(u) == u = <<>> \/ (IF ver = V1 THEN Includes(u, GifPrefix) ELSE StartsWith(u, GifPrefix))
        u1 == IF placeholder(e.src) THEN LazySource(e) ELSE e.src
        u2 == IF gif(u1) /\ e.srcset # <<>> THEN LastSrcsetUrl(e.srcset) ELSE u1
    IN IF u2 = <<>> \/ (ver = V2 /\ StartsWith(u2, DataPrefix)) THEN NotAvailable ELSE u2

\* the object pushed to results
ProductRecord(ver, d, priceElement, found) ==
    [title    |-> TrimmedText(d, found.title),
     price    |-> TrimmedText(d, priceElement),
     imageUrl |-> ResolveImageUrl(ver, d.el[found.image])]

\* results.unshift(record)
UnshiftResult(results, record) == <<record>> \o results

\* results.push(record)
PushResult(results, record) == Append(results, record)

\* One iteration of potentialPriceElements.forEach on the run state
\* [processed, results, picked]: picked remembers, for each record, the
\* elements it was built from.
ProcessPrice(ver, d, run, priceElement) ==
    LET found == Climb(ver, d, priceElement, run.processed, priceElement, 0, 0) IN
    IF found.productContainer # 0
    THEN [processed |-> run.processed \cup {found.productContainer},
          results   |-> PushResult(run.results, ProductRecord(ver, d, priceElement, found)),
          picked    |-> PushResult(run.picked,
                                   [price     |-> priceElement,
                                    container |-> found.productContainer,
                                    image     |-> found.image,
                                    title     |-> found.title,
                                    step      |-> found.step])]
    ELSE run

RECURSIVE ForEachPrice(_, _, _, _, _)
ForEachPrice(ver, d, run, prices, k) ==
    IF k > Len(prices) THEN run
    ELSE ForEachPrice(ver, d, ProcessPrice(ver, d, run, prices[k]), prices, k + 1)

\* one detection function run on page d
Detect(ver, d) ==
    LET prices == PotentialPriceElements(ver, d)
        run    == ForEachPrice(ver, d, [processed |-> {}, results |-> <<>>, picked |-> <<>>],
                               prices, 1)
    IN [prices |-> prices, processed |-> run.processed,
        results |-> run.results, picked |-> run.picked]

(***************************************************************************)
(* The popup: the click handler of highlightBtn.                           *)
(***************************************************************************)
RECURSIVE AllProducts(_)
\* injectionResults.flatMap(frame => frame.result || [])
AllProducts(injectionResults) ==
    IF injectionResults = <<>> THEN <<>>
    ELSE Head(injectionResults).result \o AllProducts(Tail(injectionResults))

TitleLabel == <<"T", "i", "t", "l", "e", ":", " ">>

ImageLabel == <<"I", "m", "a", "g", "e", ":", " ">>

PriceLabel == <<"P", "r", "i", "c", "e", ":", " ">>

\* the three += of the forEach callback for one product
ReportBlock(product) ==
    TitleLabel \o product.title \o <<"\n">>
        \o ImageLabel \o product.imageUrl \o <<"\n">>
        \o PriceLabel \o product.price \o <<"\n", "\n">>

RECURSIVE FileContent(_)
\* fileContent after allProducts.forEach
FileContent(products) ==
    IF products = <<>> THEN <<>>
    ELSE ReportBlock(Head(products)) \o FileContent(Tail(products))

Status(kind, count, message) == [kind |-> kind, count |-> count, message |-> message]

\* the empty result not told apart
NothingToSaveNever(products) == FALSE

\* `No products were detected.` when the pass found nothing
NothingToSave(products) == Len(products) = 0

(***************************************************************************)
(* The pages a pass is run on.                                             *)
(***************************************************************************)
Element == [tag |-> "li", href |-> FALSE, cls |-> "", itemprop |-> <<>>, attrs |-> {},
            displayNone |-> FALSE, w |-> 300, h |-> 200, text |-> <<>>,
            src |-> <<>>, dataSrc |-> <<>>, dataLazyload |-> <<>>, srcset |-> <<>>,
            naturalWidth |-> 0, naturalHeight |-> 0, loading |-> "eager"]

Box(w, h) == [Element EXCEPT !.w = w, !.h = h]

Div(w, h) == [Element EXCEPT !.tag = "div", !.w = w, !.h = h]

Span(text) == [Element EXCEPT !.tag = "span", !.w = 60, !.h = 20, !.text = text]

Heading(text) == [Element EXCEPT !.tag = "h2", !.w = 200, !.h = 24, !.text = text]

Link(text) == [Element EXCEPT !.tag = "a", !.href = TRUE, !.w = 200, !.h = 24, !.text = text]

Img(src) == [Element EXCEPT !.tag = "img", !.w = 120, !.h = 120, !.src = src,
                            !.naturalWidth = 400, !.naturalHeight = 400]

TxtMouse == <<"W", "i", "r", "e", "l", "e", "s", "s", " ", "M", "o", "u", "s", "e">>

TxtMouseTwoLines == <<"W", "i", "r", "e", "l", "e", "s", "s", "\n", "M", "o", "u", "s", "e">>

TxtFiveLetters == <<"M", "o", "u", "s", "e">>

TxtSale == <<"S", "a", "l", "e">>

TxtDigits == <<"1", "2", "3", "4", "5">>

TxtBuyNow == <<"B", "u", "y", " ", "n", "o", "w", " ">>

TxtDollar == <<"$", "1", "9", ".", "9", "9">>

TxtEuro == <<"1", "9", ",", "9", "9", " ", "EURO">>

TxtPadded == <<" ", "$", "5", " ">>

TxtLira == <<"5", " ", "T", "L">>

TxtClaimDollar == <<"$", "1", "2", ".", "9", "9">>

TxtClaimEuro == <<"1", "9", ",", "9", "9", " ", "EURO">>

TxtClaimCode == <<"1", ".", "2", "3", "4", ",", "5", "6", " ", "E", "U", "R">>

TxtClaimStars == <<"4", ".", "5", " ", "o", "u", "t", " ", "o", "f", " ", "5", " ", "s", "t", "a", "r", "s">>

TxtClaimRatio == <<"4", ".", "5", "/", "5">>

UrlA == <<"a", ".", "j", "p", "g">>

UrlLazy == <<"l", "a", "z", "y", ".", "j", "p", "g">>

UrlLazyload == <<"l", "l", ".", "j", "p", "g">>

UrlGif == <<"d", "a", "t", "a", ":", "i", "m", "a", "g", "e", "/", "g", "i", "f", ";", "b", "a", "s", "e", "6", "4", ",", "R", "0">>

UrlPng == <<"d", "a", "t", "a", ":", "i", "m", "a", "g", "e", "/", "p", "n", "g", ";", "b", "a", "s", "e", "6", "4", ",", "i", "V">>

UrlBlank == <<"i", "m", "g", "/", "b", "l", "a", "n", "k", ".", "g", "i", "f">>

SrcsetTwo == <<"s", "1", ".", "j", "p", "g", " ", "1", "x", ",", " ", "s", "2", ".", "j", "p", "g", " ", "2", "x">>

\* one entry whose URL holds a comma: "c,d.jpg 2x"
SrcsetComma == <<"c", ",", "d", ".", "j", "p", "g", " ", "2", "x">>

\* a text of n letters
Letters(n) == [i \in 1..n |-> "x"]

RECURSIVE RightPath(_, _)
\* n and its ancestors in the parent sequence p
RightPath(p, n) == IF n = 0 THEN {} ELSE {n} \cup RightPath(p, p[n])

RECURSIVE Shapes(_)
\* the trees of n elements numbered in document order
Shapes(n) ==
    IF n = 1 THEN {<<0>>}
    ELSE {Append(p, a) : <<p, a>> \in {<<q, b>> \in Shapes(n - 1) \X (1..(n - 1)) :
                                          b \in RightPath(q, n - 1)}}

\* an img has no children
WellFormed(d) == \A n \in Nodes(d) : d.parent[n] # 0 => d.el[d.parent[n]].tag # "img"

\* the page d with the subtree t hung under the root as its last child; in t,
\* parent 0 stands for the root of the page
Attach(d, t) ==
    [parent |-> d.parent \o [i \in 1..Len(t.parent) |->
                                IF t.parent[i] = 0 THEN 1 ELSE t.parent[i] + Len(d.parent)],
     el     |-> d.el \o t.el]

RECURSIVE AttachAll(_, _)
AttachAll(d, ts) == IF ts = <<>> THEN d ELSE AttachAll(Attach(d, Head(ts)), Tail(ts))

\* a card: a box holding the elements es as its children
Card(box, es) == [parent |-> <<0>> \o [i \in 1..Len(es) |-> 1], el |-> <<box>> \o es]

\* the subtree t inside the element e
Wrap(e, t) ==
    [parent |-> <<0>> \o [i \in 1..Len(t.parent) |-> t.parent[i] + 1], el |-> <<e>> \o t.el]

RECURSIVE Chain(_, _, _)
\* k wrappers, one inside the other, the innermost holding e
Chain(wrapper, k, e) ==
    IF k = 0 THEN [parent |-> <<0>>, el |-> <<e>>] ELSE Wrap(wrapper, Chain(wrapper, k - 1, e))

RootOnly(e) == [parent |-> <<0>>, el |-> <<e>>]

(* Every tree of at most MaxNodes elements under an in-bounds root, each      *)
(* element a box, an image, a link (a title that is also scanned as a price)  *)
(* or a price.                                                                *)
MaxNodes == 4

SmallLib == {Box(300, 200), Img(UrlA), Link(TxtMouse), Span(TxtEuro)}

SmallPages ==
    UNION {{d \in {[parent |-> p, el |-> <<Box(300, 200)>> \o e] :
                       p \in Shapes(n), e \in [1..(n - 1) -> SmallLib]} : WellFormed(d)}
           : n \in 1..MaxNodes}

(* One card with an image, a title and a price, over the texts and the        *)
(* attributes the scan and the title loop look at.                            *)
TitleTexts == {TxtMouse, TxtMouseTwoLines, TxtFiveLetters, TxtSale, TxtDigits, TxtClaimDollar,
               TxtClaimStars, Letters(200), Letters(201), <<>>}

PriceTexts == {TxtClaimDollar, TxtClaimEuro, TxtClaimCode, TxtClaimStars, TxtClaimRatio,
               TxtPadded, TxtLira, TxtSale, TxtDollar \o <<"\n">> \o TxtSale,
               <<"$", "5", " ">> \o Letters(48), <<>>}

PriceMarks == {[attrs |-> {}, itemprop |-> <<>>],
               [attrs |-> {"data-price"}, itemprop |-> <<>>],
               [attrs |-> {"data-saleprice", "data-rating"}, itemprop |-> <<>>],
               [attrs |-> {}, itemprop |-> ItemPrice],
               [attrs |-> {}, itemprop |-> <<"l", "o", "w", "P", "r", "i", "c", "e">>],
               [attrs |-> {}, itemprop |-> <<"r", "a", "t", "i", "n", "g", "V", "a", "l", "u", "e">>]}

Marked(e, m) == [e EXCEPT !.attrs = m.attrs, !.itemprop = m.itemprop]

TextPages ==
    {AttachAll(RootOnly(Box(300, 200)), <<RootOnly(Img(UrlA)), RootOnly(Heading(title)),
                                          RootOnly(Marked(Span(price), m))>>)
        : title \in TitleTexts, price \in PriceTexts, m \in PriceMarks}

(* The same card with the price element hidden, empty of area, or marked as a *)
(* review container, and with the title hidden.                               *)
PriceStates == {[Span(TxtDollar) EXCEPT !.displayNone = TRUE],
                [Span(TxtDollar) EXCEPT !.w = 0],
                [Span(TxtDollar) EXCEPT !.h = 0],
                [Span(TxtDollar) EXCEPT !.cls = "score"],
                [Box(60, 20) EXCEPT !.text = TxtDollar],
                Span(TxtDollar)}

TitleStates == {[Heading(TxtMouse) EXCEPT !.displayNone = TRUE],
                [Heading(TxtMouse) EXCEPT !.w = 0],
                [Box(200, 24) EXCEPT !.cls = "product-title", !.text = TxtMouse],
                [Box(200, 24) EXCEPT !.itemprop = ItemName, !.text = TxtMouse],
                [Link(TxtMouse) EXCEPT !.href = FALSE],
                Heading(TxtMouse)}

StatePages ==
    {AttachAll(RootOnly(Box(300, 200)), <<RootOnly(Img(UrlA)), RootOnly(title), RootOnly(price)>>)
        : title \in TitleStates, price \in PriceStates}

(* The same card over the attributes of its image.                            *)
ImageSources == {UrlA, <<>>, UrlGif, UrlPng, UrlBlank}

ImageSizes == {<<60, 61>>, <<61, 60>>, <<61, 61>>}

Images ==
    {[Img(src) EXCEPT !.dataSrc = lazy, !.dataLazyload = lazyload, !.srcset = srcset,
                      !.w = size[1], !.h = size[2]]
        : src \in ImageSources, lazy \in {<<>>, UrlLazy, UrlGif}, lazyload \in {<<>>, UrlLazyload},
          srcset \in {<<>>, SrcsetTwo, SrcsetComma}, size \in ImageSizes}
      \cup {[Img(src) EXCEPT !.naturalWidth = n[1], !.naturalHeight = n[2], !.loading = l,
                             !.displayNone = hidden]
              : src \in {UrlA, <<>>}, n \in {<<50, 51>>, <<51, 51>>}, l \in {"eager", "lazy"},
                hidden \in BOOLEAN}

ImagePages ==
    {AttachAll(RootOnly(Box(300, 200)), <<RootOnly(image), RootOnly(Heading(TxtMouse)),
                                          RootOnly(Span(TxtDollar))>>)
        : image \in Images}

(* A card inside an outer box, over the sizes at both ends of the bounds.     *)
Widths == {99, 100, 1000, 1001}

Heights == {99, 100, 1500, 1501}

ProductCard(box, price) == Card(box, <<Img(UrlA), Heading(TxtMouse), price>>)

SizePages ==
    {Attach(RootOnly(Box(outer[1], outer[2])), ProductCard(Box(inner[1], inner[2]), Span(TxtDollar)))
        : outer \in Widths \X Heights, inner \in Widths \X Heights}

(* A price at the bottom of a chain of wrappers, under a root that holds an   *)
(* image and a title; the outermost wrapper may be a review container.        *)
MaxWrappers == 10

Wrappers == {Box(60, 20), Div(60, 20)}

DeepPages ==
    {AttachAll(RootOnly(Box(300, 200)),
               <<RootOnly(Img(UrlA)), RootOnly(Heading(TxtMouse)),
                 IF k = 0 THEN RootOnly(Span(TxtDollar))
                 ELSE Wrap([wrapper EXCEPT !.cls = cls], Chain(wrapper, k - 1, Span(TxtDollar)))>>)
        : wrapper \in Wrappers, k \in 0..MaxWrappers, cls \in {"", "reviews"}}

(* A list of at most MaxCards items under a root that is or is not in bounds. *)
MaxCards == 2

Items == {ProductCard(Box(300, 200), Span(TxtDollar)),
          ProductCard(Div(300, 200), Span(TxtDollar)),
          Card(Box(300, 200), <<Img(UrlA), Heading(TxtMouse), Span(TxtDollar), Span(TxtEuro)>>),
          Card(Box(300, 200), <<Img(UrlA), Img(UrlLazy), Heading(TxtMouse), Heading(TxtBuyNow),
                                Span(TxtEuro)>>),
          Attach(RootOnly(Box(300, 200)), Card(Link(TxtMouse), <<Span(TxtEuro)>>)),
          Attach(Card(Box(300, 200), <<Img(UrlA)>>), Card(Link(TxtMouse), <<Span(TxtEuro)>>)),
          RootOnly(Heading(TxtMouse)),
          RootOnly(Span(TxtDollar))}

Roots == {Box(900, 1400), Box(1200, 3000)}

ListPages ==
    UNION {{AttachAll(RootOnly(root), items) : root \in Roots, items \in [1..k -> Items]}
           : k \in 1..MaxCards}

Pages == SmallPages \cup TextPages \cup StatePages \cup ImagePages \cup SizePages
             \cup DeepPages \cup ListPages

NoPage == [parent |-> <<>>, el |-> <<>>]

NoRun == [prices |-> <<>>, processed |-> {}, results |-> <<>>, picked |-> <<>>]

HostErrors == {"Cannot access contents of the page", "Cannot access a chrome:// URL"}

DownloadErrors == {"Download canceled by the user"}

NoTabError == "Cannot read properties of undefined (reading 'id')"

VARIABLES
    pc,               \* where the click handler stands
    disabled,         \* highlightBtn.disabled
    statusMessage,    \* statusMessage.textContent
    tab,              \* the handler's tab
    page,             \* the page of the active tab the content script ran on
    first,            \* the run of the first detection function
    second,           \* the run of the second detection function
    highlight,        \* the highlights the content script applied to the page
    notification,     \* the text of the page notification
    injectionResults, \* what executeScript resolved with
    fileContent,      \* the report
    download          \* the download requested, if any

vars == <<pc, disabled, statusMessage, tab, page, first, second, highlight, notification,
          injectionResults, fileContent, download>>

pageVars == <<page, first, second, highlight, notification>>

Init ==
    /\ pc = "idle"
    /\ disabled = FALSE
    /\ statusMessage = Status("initial", 0, "")
    /\ tab = "none"
    /\ page = NoPage
    /\ first = NoRun
    /\ second = NoRun
    /\ highlight = {}
    /\ notification = Status("none", 0, "")
    /\ injectionResults = <<>>
    /\ fileContent = <<>>
    /\ download = "none"

\* The click: the button is disabled and the status set; the handler then awaits
\* chrome.tabs.query.  The page-side variables describe the page of the pass
\* in progress only and start afresh.
Click ==
    /\ pc = "idle"
    /\ ~disabled
    /\ disabled' = TRUE
    /\ statusMessage' = Status("detecting", 0, "")
    /\ pc' = "query"
    /\ tab' = "none"
    /\ page' = NoPage
    /\ first' = NoRun
    /\ second' = NoRun
    /\ highlight' = {}
    /\ notification' = Status("none", 0, "")
    /\ injectionResults' = <<>>
    /\ fileContent' = <<>>
    /\ download' = "none"

\* const [tab] = await chrome.tabs.query(...): the first tab, or undefined
QueryTabs ==
    /\ pc = "query"
    /\ \E t \in {"tab", "none"} : tab' = t
    /\ pc' = "inject"
    /\ UNCHANGED <<disabled, statusMessage, injectionResults, fileContent, download>>
    /\ UNCHANGED pageVars

\* the catch block that leaves the status as it was
CaughtSilently(message) ==
    /\ statusMessage' = statusMessage
    /\ disabled' = FALSE
    /\ pc' = "idle"
    /\ UNCHANGED <<tab, injectionResults, fileContent, download>>
    /\ UNCHANGED pageVars

\* the catch block
Caught(message) ==
    /\ statusMessage' = Status("error", 0, message)
    /\ disabled' = FALSE
    /\ pc' = "idle"
    /\ UNCHANGED <<tab, injectionResults, fileContent, download>>
    /\ UNCHANGED pageVars

\* tab.id of undefined throws inside the try
InjectNoTab ==
    /\ pc = "inject"
    /\ tab = "none"
    /\ Caught(NoTabError)

\* the host refuses the injection: executeScript rejects
InjectDenied ==
    /\ pc = "inject"
    /\ tab = "tab"
    /\ \E message \in HostErrors : Caught(message)

\* the marks both functions leave on the elements of their records
Highlights(ver, run) ==
    UNION {{<<ver, "image", r.image>>, <<ver, "title", r.title>>, <<ver, "price", r.price>>}
           : r \in {run.picked[i] : i \in 1..Len(run.picked)}}

\* displayPageNotification at the end of a detection function
Notification(results) ==
    IF Len(results) > 0 THEN Status("detected", Len(results), "")
    ELSE Status("no-products", 0, "")

\* content.js runs in the page: the first detection function, then the second,
\* whose return value is the script's result
RunContentScript ==
    /\ pc = "inject"
    /\ tab = "tab"
    /\ \E d \in Pages : \E r1 \in {Detect(V1, d)} : \E r2 \in {Detect(V2, d)} :
             /\ page' = d
             /\ first' = r1
             /\ second' = r2
             /\ highlight' = Highlights(V1, r1) \cup Highlights(V2, r2)
             /\ notification' = Notification(r2.results)
             /\ injectionResults' = <<[result |-> r2.results]>>
    /\ pc' = "injected"
    /\ UNCHANGED <<disabled, statusMessage, tab, fileContent, download>>

\* allProducts.length === 0: the status is set and the handler returns
NothingDetected ==
    /\ pc = "injected"
    /\ NothingToSave(AllProducts(injectionResults))
    /\ statusMessage' = Status("none-detected", 0, "")
    /\ pc' = "idle"
    /\ UNCHANGED <<disabled, tab, injectionResults, fileContent, download>>
    /\ UNCHANGED pageVars

\* the report is built and chrome.downloads.download called
RequestDownload ==
    /\ pc = "injected"
    /\ ~NothingToSave(AllProducts(injectionResults))
    /\ fileContent' = FileContent(AllProducts(injectionResults))
    /\ download' = "detected-products.txt"
    /\ pc' = "download"
    /\ UNCHANGED <<disabled, statusMessage, tab, injectionResults>>
    /\ UNCHANGED pageVars

\* the callback of chrome.downloads.download
DownloadCallback ==
    /\ pc = "download"
    /\ \/ \E message \in DownloadErrors : statusMessage' = Status("download-failed", 0, message)
       \/ statusMessage' = Status("downloaded", Len(AllProducts(injectionResults)), "")
    /\ disabled' = FALSE
    /\ pc' = "idle"
    /\ UNCHANGED <<tab, injectionResults, fileContent, download>>
    /\ UNCHANGED pageVars

Next ==
    \/ Click
    \/ QueryTabs
    \/ InjectNoTab
    \/ InjectDenied
    \/ RunContentScript
    \/ NothingDetected
    \/ RequestDownload
    \/ DownloadCallback

Spec == Init /\ [][Next]_vars

(***************************************************************************)
(* What the claims speak of.                                               *)
(***************************************************************************)
RunOf(ver) == IF ver = V1 THEN first ELSE second

Versions == {V1, V2}

RECURSIVE AncestorsWithin(_, _, _)
\* the ancestors of n at most k steps above it
AncestorsWithin(d, n, k) ==
    IF k = 0 \/ d.parent[n] = 0 THEN {}
    ELSE {d.parent[n]} \cup AncestorsWithin(d, d.parent[n], k - 1)

\* the containers claimed by the records of run whose price was scanned before n
ClaimedBefore(run, n) ==
    {run.picked[i].container : i \in {j \in 1..Len(run.picked) : run.picked[j].price < n}}

\* the conditions of a title other than that it does not hold the price
TextQualifies(ver, n) ==
    LET titleText == TrimmedText(page, n) IN
    /\ (IF ver = V1 THEN Len(titleText) > 5 /\ Len(titleText) < 200
                    ELSE Len(titleText) >= 5 /\ Len(titleText) <= 200)
    /\ ~PriceRegexTest(ver, titleText)
    /\ ~NumericOnly(titleText)
    /\ ~ReviewPatternTest(titleText)
    /\ Rendered(page, n)
    /\ page.el[n].w > 0
    /\ page.el[n].h > 0

\* C1: in one detection pass no two records are backed by the same container: a
\* node enters the claimed set once, and a claimed node is never the container of
\* a later candidate.
C1_ContainersDistinct ==
    \A ver \in Versions :
        LET run == RunOf(ver) IN
        /\ \A i, j \in 1..Len(run.picked) :
              i # j => run.picked[i].container # run.picked[j].container
        /\ run.processed = {run.picked[i].container : i \in 1..Len(run.picked)}
        /\ Cardinality(run.processed) = Len(run.picked)

\* a later candidate met the container an earlier one had claimed, climbed past
\* it and found another
C1_Witness ==
    \E i, j \in 1..Len(second.picked) :
        /\ i < j
        /\ Contains(page, second.picked[i].container, second.picked[j].price)
        /\ Contains(page, second.picked[j].container, second.picked[i].container)

\* C3: every container has width in [100,1000] and height in [100,1500].
C3_ContainerWithinBounds ==
    \A ver \in Versions :
        \A i \in 1..Len(RunOf(ver).picked) :
            LET c == RunOf(ver).picked[i].container IN
            /\ Rendered(page, c)
            /\ page.el[c].w >= 100 /\ page.el[c].w <= 1000
            /\ page.el[c].h >= 100 /\ page.el[c].h <= 1500

\* a card one pixel too tall holding image, title and price is passed over for
\* the box around it, which is exactly as large as a container may be
C3_Witness ==
    /\ Len(second.picked) = 1
    /\ LET r == second.picked[1]
           card == page.parent[r.price]
       IN /\ r.container = page.parent[card]
          /\ page.el[card].w = 100 /\ page.el[card].h = 1501
          /\ Contains(page, card, r.image) /\ Contains(page, card, r.title)
          /\ page.el[r.container].w = 1000 /\ page.el[r.container].h = 1500

\* C5: a title-universe element that holds the price candidate is never the
\* title; the other title elements of the ancestor are tried in document order;
\* when none qualifies the ancestor is not selected and the climb goes on.
C5_TitleNeverHoldsPrice ==
    \A ver \in Versions :
        \A i \in 1..Len(RunOf(ver).picked) :
            LET r == RunOf(ver).picked[i]
                nearer == {a \in AncestorsWithin(page, r.price, ClimbDepth) :
                               a # r.container /\ Contains(page, r.container, a)}
            IN /\ ~Contains(page, r.title, r.price)
               /\ r.title \in PotentialTitles(page, r.container)
               /\ TextQualifies(ver, r.title)
               /\ \A n \in PotentialTitles(page, r.container) :
                     n < r.title => Contains(page, n, r.price) \/ ~TextQualifies(ver, n)
               /\ \A a \in nearer :
                     (/\ a \notin ClaimedBefore(RunOf(ver), r.price)
                      /\ page.el[a].w >= 100 /\ page.el[a].w <= 1000
                      /\ page.el[a].h >= 100 /\ page.el[a].h <= 1500
                      /\ FindImage(ver, page, a) # 0)
                     => \A n \in PotentialTitles(page, a) :
                           Contains(page, n, r.price) \/ ~TextQualifies(ver, n)

\* a link whose text would do as a title holds the price: the card whose only
\* title it is was passed over, and in the box around it the next title was taken
C5_Witness ==
    \E i \in 1..Len(second.picked) :
        LET r == second.picked[i] IN
        /\ \E n \in PotentialTitles(page, r.container) :
              n < r.title /\ Contains(page, n, r.price) /\ TextQualifies(V2, n)
        /\ \E a \in AncestorsWithin(page, r.price, ClimbDepth) :
              /\ a # r.container
              /\ Contains(page, r.container, a)
              /\ page.el[a].w >= 100 /\ page.el[a].h >= 100
              /\ FindImage(V2, page, a) # 0
              /\ PotentialTitles(page, a) # {}

\* a candidate of run that some ancestor within reach could have served
HasContainer(ver, n) ==
    \E a \in AncestorsWithin(page, n, 10) :
        /\ a \notin ClaimedBefore(RunOf(ver), n)
        /\ Rendered(page, a)
        /\ page.el[a].w >= 100 /\ page.el[a].w <= 1000
        /\ page.el[a].h >= 100 /\ page.el[a].h <= 1500
        /\ FindImage(ver, page, a) # 0
        /\ FindTitle(ver, page, a, n) # 0

\* C7: the output is the candidates whose climb found a container, one record
\* each, in scan (document) order; an exhausted candidate gives no record and
\* claims nothing.
C7_ResultsInScanOrder ==
    \A ver \in Versions :
        LET run == RunOf(ver) IN
        /\ \A k, l \in 1..Len(run.prices) : k < l => run.prices[k] < run.prices[l]
        /\ Len(run.results) = Len(run.picked)
        /\ \A i, j \in 1..Len(run.picked) : i < j => run.picked[i].price < run.picked[j].price
        /\ \A k \in 1..Len(run.prices) :
              HasContainer(ver, run.prices[k])
                  <=> \E i \in 1..Len(run.picked) : run.picked[i].price = run.prices[k]
        /\ \A i \in 1..Len(run.picked) :
              /\ \E k \in 1..Len(run.prices) : run.picked[i].price = run.prices[k]
              /\ run.results[i].price = TrimmedText(page, run.picked[i].price)
              /\ run.results[i].title = TrimmedText(page, run.picked[i].title)
        /\ Cardinality(run.processed) = Len(run.results)

\* two records in scan order, and a third candidate whose climb was exhausted
C7_Witness ==
    /\ Len(second.results) = 2
    /\ Len(second.prices) = 3
    /\ second.results[1].price # second.results[2].price

\* the one product of a page: price p, in-bounds ancestor a, image img, heading h
HappyCase(p, a, img, h) ==
    /\ second.prices = <<p>>
    /\ PriceRegexTest(V2, TrimmedText(page, p))
    /\ ~ClosestReview(page, p)
    /\ a # p /\ Contains(page, a, p)
    /\ Rendered(page, a)
    /\ page.el[a].w >= 100 /\ page.el[a].w <= 1000
    /\ page.el[a].h >= 100 /\ page.el[a].h <= 1500
    /\ {n \in Descendants(page, a) : page.el[n].tag = "img"} = {img}
    /\ Rendered(page, img) /\ page.el[img].w > 60 /\ page.el[img].h > 60
    /\ page.el[img].src # <<>>
    /\ ~StartsWith(page.el[img].src, GifPlaceholder)
    /\ ~Includes(page.el[img].src, BlankGif)
    /\ PotentialTitles(page, a) = {h}
    /\ Rendered(page, h) /\ page.el[h].w > 0 /\ page.el[h].h > 0
    /\ Len(TrimmedText(page, h)) >= 5 /\ Len(TrimmedText(page, h)) <= 200
    /\ ~PriceRegexTest(V2, TrimmedText(page, h))
    /\ ~ReviewPatternTest(TrimmedText(page, h))
    /\ ~Contains(page, h, p)

HappyRecord(p, img, h) ==
    [title |-> TrimmedText(page, h), price |-> TrimmedText(page, p),
     imageUrl |-> page.el[img].src]

\* C2 as stated: the happy path returns exactly the one record.
C2_HappyPathAsStated ==
    \A p, a, img, h \in Nodes(page) :
        HappyCase(p, a, img, h) => AllProducts(injectionResults) = <<HappyRecord(p, img, h)>>

\* C2, amended: the happy path returns exactly the one record when moreover the
\* ancestor is at most 10 levels above the price, the heading's text is not
\* digits only, and the image's source is not a data URI.
C2_HappyPath ==
    \A p, a, img, h \in Nodes(page) :
        (/\ HappyCase(p, a, img, h)
         /\ a \in AncestorsWithin(page, p, 10)
         /\ ~NumericOnly(TrimmedText(page, h))
         /\ ~StartsWith(page.el[img].src, DataPrefix))
        => AllProducts(injectionResults) = <<HappyRecord(p, img, h)>>

\* the happy path, the card two levels above the price and the title as short
\* as a title may be
C2_Witness ==
    \E p, a, img, h \in Nodes(page) :
        /\ HappyCase(p, a, img, h)
        /\ a \in AncestorsWithin(page, p, 10)
        /\ ~NumericOnly(TrimmedText(page, h))
        /\ ~StartsWith(page.el[img].src, DataPrefix)
        /\ Len(TrimmedText(page, h)) = 5
        /\ pc = "download"

\* C4: a price-shaped node that is, or is at any depth inside, a review container
\* is never a price candidate, and no record is produced from it.
C4_ReviewNeverCandidate ==
    \A ver \in Versions : \A n \in Nodes(page) :
        ClosestReview(page, n) =>
            /\ \A k \in 1..Len(RunOf(ver).prices) : RunOf(ver).prices[k] # n
            /\ \A i \in 1..Len(RunOf(ver).picked) : RunOf(ver).picked[i].price # n

JudgedOnText(n) ==
    /\ InPriceUniverse(page.el[n])
    /\ Rendered(page, n) /\ page.el[n].w > 0 /\ page.el[n].h > 0
    /\ ~ClosestReview(page, n)
    /\ ~IsReviewElement(page.el[n])

\* C8: "$12.99", "19,99 EUR-sign" and "1.234,56 EUR" are accepted as price text;
\* "4.5 out of 5 stars" and "4.5/5" are rejected, by the review pattern, before
\* the price pattern or a price attribute is looked at.
C8_PriceClassification ==
    \A n \in Nodes(page) :
        JudgedOnText(n) =>
            /\ TrimmedText(page, n) \in {TxtClaimDollar, TxtClaimEuro, TxtClaimCode}
                  => /\ \E k \in 1..Len(second.prices) : second.prices[k] = n
                     /\ PriceVerdict(V2, page, n) = "priceRegex"
            /\ TrimmedText(page, n) \in {TxtClaimStars, TxtClaimRatio}
                  => /\ \A k \in 1..Len(second.prices) : second.prices[k] # n
                     /\ PriceVerdict(V2, page, n) = "reviewText"

\* an element carrying a price attribute whose text is "4.5/5" was scanned and
\* turned away
C8_Witness ==
    \E n \in Nodes(page) :
        /\ JudgedOnText(n)
        /\ HasSemanticPriceAttr(page.el[n])
        /\ TrimmedText(page, n) = TxtClaimRatio
        /\ \A k \in 1..Len(second.prices) : second.prices[k] # n

\* a pass has finished: the handler started by a click has run to its end
PassFinished == pc = "idle" /\ statusMessage.kind # "initial"

RECURSIVE LinesOf(_, _)
\* the lines of a text, each ended by a line feed; cur is the line being read
LinesOf(s, cur) ==
    IF s = <<>> THEN (IF cur = <<>> THEN <<>> ELSE <<cur>>)
    ELSE IF Head(s) = "\n" THEN <<cur>> \o LinesOf(Tail(s), <<>>)
    ELSE LinesOf(Tail(s), Append(cur, Head(s)))

RECURSIVE BlockLines(_)
\* the four lines the layout gives each record, in record order
BlockLines(products) ==
    IF products = <<>> THEN <<>>
    ELSE <<TitleLabel \o Head(products).title, ImageLabel \o Head(products).imageUrl,
           PriceLabel \o Head(products).price, <<>>>> \o BlockLines(Tail(products))

\* C10: the report of a non-empty record sequence is, line for line, the blocks
\* "Title: ", "Image: ", "Price: ", blank of the records in order, exactly four
\* lines per record.
C10_FourLinesPerRecord ==
    download # "none" =>
        /\ fileContent = FileContent(second.results)
        /\ LinesOf(fileContent, <<>>) = BlockLines(second.results)
        /\ Len(LinesOf(fileContent, <<>>)) = 4 * Len(second.results)

RECURSIVE NthAncestor(_, _, _)
\* the k-th ancestor of n, the parent being the first; 0 when there is none
NthAncestor(d, n, k) ==
    IF n = 0 THEN 0
    ELSE IF k = 0 THEN n
    ELSE NthAncestor(d, d.parent[n], k - 1)

\* the ancestor a was, at the climb of the candidate p, unclaimed, within the
\* size bounds and holding a qualifying image and a qualifying title
WouldServe(ver, a, p) ==
    /\ a \notin ClaimedBefore(RunOf(ver), p)
    /\ Rendered(page, a)
    /\ page.el[a].w >= 100 /\ page.el[a].w <= 1000
    /\ page.el[a].h >= 100 /\ page.el[a].h <= 1500
    /\ \E img \in Descendants(page, a) :
          page.el[img].tag = "img" /\ ImageQualifies(ver, page, img)
    /\ \E t \in PotentialTitles(page, a) :
          TextQualifies(ver, t) /\ ~Contains(page, t, p)

\* C11: the container of a record is the k-th ancestor of its candidate for some
\* k in 1..10, never the candidate itself, and no nearer ancestor was unclaimed,
\* in bounds and holding a qualifying image and title; skipped ancestors use up
\* steps, so no ancestor above the 10th is selected.
C11_InnermostWithinTenSteps ==
    \A ver \in Versions :
        \A i \in 1..Len(RunOf(ver).picked) :
            LET r == RunOf(ver).picked[i] IN
            /\ r.container # r.price
            /\ \E k \in 1..10 :
                  /\ NthAncestor(page, r.price, k) = r.container
                  /\ \A j \in 1..(k - 1) :
                        ~WouldServe(ver, NthAncestor(page, r.price, j), r.price)

\* the container is the 10th ancestor of the candidate, every nearer one having
\* been skipped for its size
C11_Witness ==
    \E i \in 1..Len(second.picked) :
        /\ NthAncestor(page, second.picked[i].price, 10) = second.picked[i].container
        /\ second.picked[i].step = 10

\* a candidate whose 11th ancestor would serve yields no record
C11_BeyondWitness ==
    /\ page # NoPage
    /\ second.picked = <<>>
    /\ \E p \in Nodes(page) :
          /\ second.prices = <<p>>
          /\ NthAncestor(page, p, 11) # 0
          /\ WouldServe(V2, NthAncestor(page, p, 11), p)

\* a known placeholder: a base64 gif data URI, or a URL naming blank.gif
KnownPlaceholder(u) == StartsWith(u, GifPlaceholder) \/ Includes(u, BlankGif)

\* the entries of a source set are separated by a comma and a space; the URL of
\* the last entry runs from behind the last such separator to the next space
LastEntryUrl(srcset) ==
    LET seps == {i \in 1..(Len(srcset) - 1) : srcset[i] = "," /\ srcset[i + 1] = " "}
        from == IF seps = {} THEN 1 ELSE Max(seps) + 2
        ends == {i \in from..Len(srcset) : srcset[i] = " "}
        to == IF ends = {} THEN Len(srcset) ELSE Min(ends) - 1
    IN SubSeq(srcset, from, to)

\* the precedence: direct source, data-src, data-lazyload, last entry of the
\* source set; the sentinel when nothing resolves or the value is a data URI
ExpectedImageUrl(e) ==
    LET r == IF e.src # <<>> /\ ~KnownPlaceholder(e.src) THEN e.src
             ELSE IF e.dataSrc # <<>> THEN e.dataSrc
             ELSE IF e.dataLazyload # <<>> THEN e.dataLazyload
             ELSE IF e.srcset # <<>> THEN LastEntryUrl(e.srcset)
             ELSE <<>>
    IN IF r = <<>> \/ StartsWith(r, DataPrefix) THEN NotAvailable ELSE r

\* C12: the imageUrl of every returned record is the direct source unless absent
\* or a known placeholder, else data-src, else data-lazyload, else the URL of the
\* last entry of the source set, and "N/A" when none resolves or the value is a
\* data URI; every candidate with a container has its record.
C12_ImageUrlPrecedence ==
    /\ Len(second.results) = Len(second.picked)
    /\ \A i \in 1..Len(second.results) :
          second.results[i].imageUrl = ExpectedImageUrl(page.el[second.picked[i].image])

\* n is a candidate of the second function's scan
IsCandidate(n) == \E k \in 1..Len(second.prices) : second.prices[k] = n

\* the conditions of the scan other than the review container rule
ScanAccepts(n) ==
    LET text == TrimmedText(page, n) IN
    /\ Rendered(page, n) /\ page.el[n].w > 0 /\ page.el[n].h > 0
    /\ Len(text) >= 1 /\ Len(text) <= 50
    /\ ~IsReviewElement(page.el[n])
    /\ ~ReviewPatternTest(text)
    /\ (PriceRegexTest(V2, text) \/ HasSemanticPriceAttr(page.el[n]))

\* n lies inside a review container: an ancestor of n matches the selectors
InsideReviewContainer(n) ==
    \E a \in Nodes(page) : a # n /\ Contains(page, a, n) /\ MatchesReviewContainer(page.el[a])

\* the candidates are in scan order, none twice, and none refused by a rule
CandidatesInOrder ==
    /\ \A i, j \in 1..Len(second.prices) : i < j => second.prices[i] < second.prices[j]
    /\ \A n \in Nodes(page) :
          (/\ HasSemanticPriceAttr(page.el[n])
           /\ \/ IsReviewElement(page.el[n])
              \/ ReviewPatternTest(TrimmedText(page, n))
              \/ Len(TrimmedText(page, n)) > 50)
          => ~IsCandidate(n)

\* C13 as stated: a scanned node is a candidate iff it is visible with area, its
\* text has 1 to 50 characters, it is not inside a review container, it has no
\* review attribute, its text is not review text, and it has price text or a
\* price attribute.
C13_CandidateIffAsStated ==
    page # NoPage =>
        /\ CandidatesInOrder
        /\ \A n \in Nodes(page) :
              InPriceUniverse(page.el[n]) =>
                  (IsCandidate(n) <=> (ScanAccepts(n) /\ ~InsideReviewContainer(n)))

\* C13, amended: the same, the review container rule refusing a node that is
\* itself a review container as well as one inside a review container.
C13_CandidateIff ==
    page # NoPage =>
        /\ CandidatesInOrder
        /\ \A n \in Nodes(page) :
              InPriceUniverse(page.el[n]) =>
                  (IsCandidate(n) <=>
                      (/\ ScanAccepts(n)
                       /\ ~InsideReviewContainer(n)
                       /\ ~MatchesReviewContainer(page.el[n])))

\* an element with a price attribute and a rating attribute, visible and with
\* price text, was scanned and is no candidate
C13_Witness ==
    \E n \in Nodes(page) :
        /\ InPriceUniverse(page.el[n])
        /\ HasSemanticPriceAttr(page.el[n])
        /\ "data-rating" \in page.el[n].attrs
        /\ PriceRegexTest(V2, TrimmedText(page, n))
        /\ Rendered(page, n) /\ page.el[n].w > 0 /\ page.el[n].h > 0
        /\ ~IsCandidate(n)

\* the qualifying images in the subtree of c
QualifyingImages(ver, c) ==
    {n \in Descendants(page, c) : page.el[n].tag = "img" /\ ImageQualifies(ver, page, n)}

\* the qualifying titles in the subtree of c for the candidate p
QualifyingTitles(ver, c, p) ==
    {t \in PotentialTitles(page, c) : TextQualifies(ver, t) /\ ~Contains(page, t, p)}

\* C14 as stated: every container holds exactly one qualifying image and exactly
\* one qualifying title for its candidate.
C14_ExactlyOneAsStated ==
    \A ver \in Versions :
        \A i \in 1..Len(RunOf(ver).picked) :
            LET r == RunOf(ver).picked[i] IN
            /\ Cardinality(QualifyingImages(ver, r.container)) = 1
            /\ Cardinality(QualifyingTitles(ver, r.container, r.price)) = 1

\* C14, amended: every container holds at least one qualifying image and at least
\* one qualifying title for its candidate, and the image and the title of the
\* record are the first of each in document order.
C14_FirstOfAtLeastOne ==
    \A ver \in Versions :
        \A i \in 1..Len(RunOf(ver).picked) :
            LET r == RunOf(ver).picked[i]
                images == QualifyingImages(ver, r.container)
                titles == QualifyingTitles(ver, r.container, r.price)
            IN /\ r.image \in images
               /\ \A n \in images : r.image <= n
               /\ r.title \in titles
               /\ \A t \in titles : r.title <= t

\* a container with two qualifying images and two qualifying titles
C14_Witness ==
    \E i \in 1..Len(second.picked) :
        LET r == second.picked[i] IN
        /\ Cardinality(QualifyingImages(V2, r.container)) >= 2
        /\ Cardinality(QualifyingTitles(V2, r.container, r.price)) >= 2

\* C15: while a pass is in flight the button is disabled, so no second pass can
\* start, and once the pass has finished, by whichever outcome, the button is
\* enabled again.
C15_ButtonEnabledAfterPass ==
    /\ pc # "idle" => disabled
    /\ pc = "idle" => ~disabled

\* C16: no two records of one pass were built from the same image node and the
\* same title node, also when a later candidate climbed past the container an
\* earlier one had claimed.
C16_ImageTitlePairsDistinct ==
    \A i, j \in 1..Len(second.picked) :
        i # j => <<second.picked[i].image, second.picked[i].title>>
                     # <<second.picked[j].image, second.picked[j].title>>

====
